---------------------------- MODULE Spec2Model ----------------------------
(***************************************************************************)
(* A model of rilo (src/main.rs): the editor state, the cursor/viewport    *)
(* motions, the text edits, the key decoder and the main loop.             *)
(*                                                                         *)
(* Bytes and characters are their ASCII codes (97 = 'a', 27 = ESC, ...).   *)
(* A Row (a Rust String) is a sequence of such codes; only ASCII text is   *)
(* modelled, so String::len() is the number of characters and every slice  *)
(* index is a character boundary.  Rust indices are 0-based and TLA+       *)
(* sequences 1-based: row[a..b] is SubSeq(row, a + 1, b).                  *)
(*                                                                         *)
(* A Rust panic unwinds main (the default panic strategy), dropping the    *)
(* Editor and with it the RawMode guard; the model records it in `panic`   *)
(* and ends the process.                                                   *)
(***************************************************************************)
EXTENDS Integers, Sequences, FiniteSets, TLC

VARIABLES
    pc,              \* position of main: "start", "created", "running", "exited"
    exit_kind,       \* how the process ended: "none", "quit", "io_error", "panic"
    tty,             \* the terminal's configuration: "cooked" or "raw"
    raw_mode,        \* the RawMode guard: "none", "held", "dropped"
    restores,        \* how many times Drop for RawMode restored the terminal
    term_rows,       \* Editor.term_rows
    term_cols,       \* Editor.term_cols
    cur_pos,         \* Editor.cur_pos: [x |-> .., y |-> ..]
    row_offset,      \* Editor.row_offset
    col_offset,      \* Editor.col_offset
    file,            \* Editor.file: TRUE when Some(File)
    rows,            \* Editor.rows
    message,         \* Editor.message.message
    dirty_flag,      \* Editor.dirty_flag
    disk,            \* the bytes of the file named on the command line
    stdin,           \* bytes the terminal has delivered and main has not read
    edits,           \* how many editing keys main has handled
    saved,           \* Editor.rows as open or the last successful save left it
    last             \* the operation main performed last (a label)

vars == <<pc, exit_kind, tty, raw_mode, restores, term_rows, term_cols,
          cur_pos, row_offset, col_offset, file, rows, message, dirty_flag,
          disk, stdin, edits, saved, last>>

----------------------------------------------------------------------------
(* Bounds of the model *)

\* The editing keys (a character, Enter, Backspace) of one run.
MaxEdits == 1

\* A step that would take cur_pos.y, row_offset or col_offset past this is
\* not taken: below the last line Down moves or scrolls for ever, and so
\* does Right on a column past the end of its line.
MaxCoord == 3

----------------------------------------------------------------------------
(* Byte values *)

ESC == 27

DEL == 127

CR == 13

LF == 10

TAB == 9

TAB_SIZE == 4

Min(a, b) == IF a < b THEN a ELSE b

\* ctrl_key: c as u8 & 0x1f
ctrl_key(c) == c % 32

\* char::is_ascii_control: U+0000..U+001F and U+007F
is_ascii_control(c) == c < 32 \/ c = 127

\* impl From<u8> for Action.  The test c == 27 of the Delete branch is dead:
\* 27 is b'\x1b' and was taken by the Escape branch.
ActionFrom(c) ==
    IF c = ctrl_key(113) THEN [tag |-> "Quit", c |-> c]
    ELSE IF c = ctrl_key(120) THEN [tag |-> "Refresh", c |-> c]
    ELSE IF c = ctrl_key(115) THEN [tag |-> "Save", c |-> c]
    ELSE IF c = ESC THEN [tag |-> "Escape", c |-> c]
    ELSE IF c = 27 \/ c = DEL THEN [tag |-> "Delete", c |-> c]
    ELSE IF c = CR THEN [tag |-> "Enter", c |-> c]
    ELSE [tag |-> "Input", c |-> c]

\* handle_escape_seq on the bytes one read() put into its zeroed 3-byte
\* buffer: the navigation key, or "Err".
NavOfBuffer(buffer) ==
    IF buffer[1] = 91
    THEN CASE buffer[2] = 65 -> "Up"
           [] buffer[2] = 66 -> "Down"
           [] buffer[2] = 67 -> "Right"
           [] buffer[2] = 68 -> "Left"
           [] buffer[2] = 72 -> "Home"
           [] buffer[2] = 70 -> "End"
           [] buffer[2] = 53 -> "PageUp"
           [] buffer[2] = 54 -> "PageDown"
           [] OTHER -> "Err"
    ELSE "Err"

\* The 3-byte buffer of handle_escape_seq after one read() of the pending
\* bytes: read() takes what is there, at most 3 bytes; the rest stays zero.
EscBuffer(pending) ==
    [i \in 1..3 |-> IF i <= Len(pending) THEN pending[i] ELSE 0]

\* What that read() leaves unread.
EscRest(pending) ==
    SubSeq(pending, Min(3, Len(pending)) + 1, Len(pending))

----------------------------------------------------------------------------
(* The editor as a value: the fields the operations below read and write,  *)
(* and whether the operation panicked.                                     *)

Ed ==
    [rows |-> rows, cur_pos |-> cur_pos, row_offset |-> row_offset,
     col_offset |-> col_offset, dirty_flag |-> dirty_flag, panic |-> FALSE]

Panic(e) == [e EXCEPT !.panic = TRUE]

\* Editor::current_line is Some
HasLine(e) == e.row_offset + e.cur_pos.y < Len(e.rows)

\* Editor::current_line, unwrapped
current_line(e) == e.rows[e.row_offset + e.cur_pos.y + 1]

\* usize::saturating_sub(1)
SatSub1(n) == IF n = 0 THEN 0 ELSE n - 1

\* Editor::rx panics when it slices line[0..cur_pos.x] past the line's end.
RxPanics(e) == HasLine(e) /\ e.cur_pos.x > Len(current_line(e))

RECURSIVE RenderWidth(_)
\* The fold of Editor::rx: 4 for a tab, 1 for any other character.
RenderWidth(s) ==
    IF s = <<>> THEN 0
    ELSE (IF Head(s) = TAB THEN 4 ELSE 1) + RenderWidth(Tail(s))

\* Editor::rx
rx(e) ==
    IF HasLine(e) /\ ~RxPanics(e)
    THEN RenderWidth(SubSeq(current_line(e), 1, e.cur_pos.x))
    ELSE 0

----------------------------------------------------------------------------
(* Editor::move_cursor *)

SetX(e, v) == [e EXCEPT !.cur_pos.x = v]

SetY(e, v) == [e EXCEPT !.cur_pos.y = v]

\* NavigationKey::Left
MoveLeft(e) ==
    IF e.cur_pos.x # 0 THEN SetX(e, e.cur_pos.x - 1)
    ELSE IF e.col_offset # 0 THEN [e EXCEPT !.col_offset = e.col_offset - 1]
    ELSE
        LET e1 == IF e.cur_pos.y = 0 /\ e.row_offset # 0
                  THEN [e EXCEPT !.row_offset = e.row_offset - 1]
                  ELSE IF ~(e.cur_pos.y = 0 /\ e.row_offset = 0)
                  THEN SetY(e, e.cur_pos.y - 1)
                  ELSE e
        IN  IF ~(e1.row_offset = 0 /\ e1.cur_pos.y = 0) /\ HasLine(e1)
            THEN LET line_length == SatSub1(Len(current_line(e1)))
                 IN  IF line_length > term_cols
                     THEN [e1 EXCEPT !.col_offset = line_length - term_cols,
                                     !.cur_pos.x = term_cols]
                     ELSE [e1 EXCEPT !.col_offset = 0,
                                     !.cur_pos.x = line_length]
            ELSE e1

\* NavigationKey::Right
MoveRight(e) ==
    IF HasLine(e)
    THEN LET line_length == Len(current_line(e))
         IN  IF e.cur_pos.x = line_length
                \/ e.cur_pos.x + e.col_offset = line_length
             THEN IF e.cur_pos.y + e.row_offset # Len(e.rows)
                  THEN IF e.cur_pos.y = term_rows
                       THEN [e EXCEPT !.cur_pos.x = 0, !.col_offset = 0,
                                      !.row_offset = e.row_offset + 1]
                       ELSE [e EXCEPT !.cur_pos.x = 0, !.col_offset = 0,
                                      !.cur_pos.y = e.cur_pos.y + 1]
                  ELSE e
             ELSE IF e.cur_pos.x # term_cols
             THEN SetX(e, e.cur_pos.x + 1)
             ELSE [e EXCEPT !.col_offset = e.col_offset + 1]
    ELSE e

\* NavigationKey::Up
MoveUp(e) ==
    LET e1 == IF e.cur_pos.y # 0 THEN SetY(e, e.cur_pos.y - 1)
              ELSE IF e.row_offset # 0
              THEN [e EXCEPT !.row_offset = e.row_offset - 1]
              ELSE e
    IN  IF HasLine(e1) /\ e1.cur_pos.x > Len(current_line(e1))
        THEN SetX(e1, Len(current_line(e1)))
        ELSE e1

\* NavigationKey::Down.  file_length = rows.len() - 1 is an unsigned
\* subtraction: on an empty buffer it panics in a build with overflow checks
\* (`checked`) and wraps to usize::MAX in one without, which no
\* row_offset + y equals.
MoveDown(e, checked) ==
    IF Len(e.rows) = 0 /\ checked THEN Panic(e)
    ELSE IF Len(e.rows) = 0 \/ e.row_offset + e.cur_pos.y # Len(e.rows) - 1
    THEN LET e1 == IF e.cur_pos.y # term_rows
                   THEN SetY(e, e.cur_pos.y + 1)
                   ELSE IF e.row_offset + term_rows # Len(e.rows)
                   THEN [e EXCEPT !.row_offset = e.row_offset + 1]
                   ELSE e
         IN  IF HasLine(e1) /\ e1.cur_pos.x > Len(current_line(e1))
             THEN SetX(e1, SatSub1(Len(current_line(e1))))
             ELSE e1
    ELSE e

\* NavigationKey::Home
MoveHome(e) == [e EXCEPT !.cur_pos.x = 0, !.col_offset = 0]

\* NavigationKey::End: current_line().unwrap() panics on a missing line.
MoveEnd(e) ==
    IF ~HasLine(e) THEN Panic(e)
    ELSE LET current_line_len == Len(current_line(e))
         IN  IF term_cols >= current_line_len
             THEN SetX(e, current_line_len)
             ELSE [e EXCEPT !.col_offset = current_line_len - term_cols,
                            !.cur_pos.x = term_cols]

\* The clamp PageUp and PageDown share.
ClampX(e) ==
    IF HasLine(e) /\ e.cur_pos.x > Len(current_line(e))
    THEN SetX(e, Len(current_line(e)))
    ELSE e

\* NavigationKey::PageUp
MovePageUp(e) == ClampX(SetY(e, 0))

\* NavigationKey::PageDown
MovePageDown(e) == ClampX(SetY(e, term_rows))

NavigationKey ==
    {"Left", "Right", "Up", "Down", "Home", "End", "PageUp", "PageDown"}

\* The match of move_cursor.
MoveMatch(e, ak, checked) ==
    CASE ak = "Left" -> MoveLeft(e)
      [] ak = "Right" -> MoveRight(e)
      [] ak = "Up" -> MoveUp(e)
      [] ak = "Down" -> MoveDown(e, checked)
      [] ak = "Home" -> MoveHome(e)
      [] ak = "End" -> MoveEnd(e)
      [] ak = "PageUp" -> MovePageUp(e)
      [] ak = "PageDown" -> MovePageDown(e)

\* Editor::move_cursor: the match, then the MoveCursor escape sequence, whose
\* column is self.rx().  `checked` is whether the build checks for integer
\* overflow; only Down reads it.
move_cursor(e, ak, checked) ==
    LET m == MoveMatch(e, ak, checked)
    IN  IF m.panic \/ RxPanics(m) THEN Panic(m) ELSE m

----------------------------------------------------------------------------
(* The text edits *)

\* insert_newline without its rows.insert(y, ..): the two halves overwrite
\* line y and the line after it.
SplitLineNoInsert(rs, x, y) ==
    SubSeq(rs, 1, y)
        \o <<SubSeq(rs[y + 1], 1, x), SubSeq(rs[y + 1], x + 1, Len(rs[y + 1]))>>
        \o SubSeq(rs, y + 3, Len(rs))

\* Vec::insert(y, ..) and the two assignments of insert_newline: line y is
\* replaced by its two halves.
SplitLine(rs, x, y) ==
    SubSeq(rs, 1, y)
        \o <<SubSeq(rs[y + 1], 1, x), SubSeq(rs[y + 1], x + 1, Len(rs[y + 1]))>>
        \o SubSeq(rs, y + 2, Len(rs))

\* An insert_newline that leaves the dirty flag as it finds it.
InsertNewlineKeepsFlag(e) ==
    LET x == e.cur_pos.x + e.col_offset
        y == e.cur_pos.y + e.row_offset
    IN  IF y >= Len(e.rows) THEN Panic(e)
        ELSE IF x > Len(e.rows[y + 1]) THEN Panic(e)
        ELSE [e EXCEPT !.rows = SplitLine(e.rows, x, y),
                       !.cur_pos.x = 0,
                       !.col_offset = 0,
                       !.cur_pos.y = e.cur_pos.y + 1]

\* Editor::insert_newline: rows[y] panics on a missing line, curr_line[0..x]
\* on a column past its end.
insert_newline(e) ==
    LET x == e.cur_pos.x + e.col_offset
        y == e.cur_pos.y + e.row_offset
        d == [e EXCEPT !.dirty_flag = TRUE]
    IN  IF y >= Len(e.rows) THEN Panic(d)
        ELSE IF x > Len(e.rows[y + 1]) THEN Panic(d)
        ELSE [d EXCEPT !.rows = SplitLine(e.rows, x, y),
                       !.cur_pos.x = 0,
                       !.col_offset = 0,
                       !.cur_pos.y = e.cur_pos.y + 1]

\* An insertion that takes the rest of the row from x + 1: c overwrites the
\* character at column x.
InsertAtOverwrites(row, x, c) ==
    SubSeq(row, 1, x) \o <<c>> \o SubSeq(row, x + 2, Len(row))

\* [&row[0..x], c, &row[x..]].concat()
InsertAt(row, x, c) ==
    SubSeq(row, 1, x) \o <<c>> \o SubSeq(row, x + 1, Len(row))

\* The buffer change of insert_char, before its cursor motion.
InsertCharRows(e, c) ==
    LET x == e.cur_pos.x + e.col_offset
        y == e.cur_pos.y + e.row_offset
        d == [e EXCEPT !.dirty_flag = TRUE]
    IN  IF y = Len(e.rows) THEN [d EXCEPT !.rows = Append(e.rows, <<c>>)]
        ELSE IF y > Len(e.rows) THEN Panic(d)
        ELSE IF x > Len(e.rows[y + 1]) THEN Panic(d)
        ELSE [d EXCEPT !.rows[y + 1] = InsertAt(e.rows[y + 1], x, c)]

\* Editor::insert_char
insert_char(e, c) ==
    LET d == InsertCharRows(e, c)
    IN  IF d.panic THEN d ELSE move_cursor(d, "Right", TRUE)

\* A join that puts line y in front of line y - 1.
JoinLinesPrepends(rs, y) ==
    SubSeq(rs, 1, y - 1) \o <<rs[y + 1] \o rs[y]>> \o SubSeq(rs, y + 2, Len(rs))

\* rows[y - 1] = rows[y - 1] + rows[y]; rows.remove(y)
JoinLines(rs, y) ==
    SubSeq(rs, 1, y - 1) \o <<rs[y] \o rs[y + 1]>> \o SubSeq(rs, y + 2, Len(rs))

\* [&row[0..x - 1], &row[x..]].concat()
RemoveAt(row, x) == SubSeq(row, 1, x - 1) \o SubSeq(row, x + 1, Len(row))

\* The buffer change of remove_char, before its cursor motion.  With x = 0
\* on an existing line 0, y - 1 underflows: a panic with overflow checks, and
\* without them an index past the end of rows, a panic too.
RemoveCharRows(e) ==
    LET x == e.cur_pos.x + e.col_offset
        y == e.cur_pos.y + e.row_offset
        d == [e EXCEPT !.dirty_flag = TRUE]
    IN  IF x = 0
        THEN IF HasLine(e)
             THEN IF y = 0 THEN Panic(d)
                  ELSE [d EXCEPT !.rows = JoinLines(e.rows, y)]
             ELSE d
        ELSE IF y >= Len(e.rows) THEN Panic(d)
        ELSE IF x > Len(e.rows[y + 1]) THEN Panic(d)
        ELSE [d EXCEPT !.rows[y + 1] = RemoveAt(e.rows[y + 1], x)]

\* Editor::remove_char
remove_char(e) ==
    LET d == RemoveCharRows(e)
    IN  IF d.panic THEN d ELSE move_cursor(d, "Left", TRUE)

\* Editor::draw panics where its self.rx() does; its row slices are guarded.
draw(e) == IF e.panic \/ RxPanics(e) THEN Panic(e) ELSE e

----------------------------------------------------------------------------
(* The frame Editor::draw writes *)

RECURSIVE render_row(_)
\* render_row: a tab becomes tab_size spaces, any other character its byte.
render_row(row) ==
    IF row = <<>> THEN <<>>
    ELSE (IF Head(row) = TAB THEN [i \in 1..TAB_SIZE |-> 32] ELSE <<Head(row)>>)
             \o render_row(Tail(row))

\* What draw appends for the screen row that shows buffer row idx: the
\* columns col_offset .. col_offset + term_cols of the line (nothing when the
\* line ends before col_offset), or '~' below the buffer.
ScreenRow(e, idx) ==
    IF idx < Len(e.rows)
    THEN LET line == e.rows[idx + 1]
         IN  IF Len(line) > e.col_offset
             THEN render_row(SubSeq(line, e.col_offset + 1,
                                    IF Len(line) > e.col_offset + term_cols
                                    THEN e.col_offset + term_cols
                                    ELSE Len(line)))
             ELSE <<>>
    ELSE <<126>>

\* What render_status_bar builds its bytes from; padding and truncation to
\* term_cols are functions of these.  `shown` is whether the message is
\* younger than 5 seconds when the bar is rendered.
StatusFields(e, shown) ==
    LET current_line_idx == e.cur_pos.y + e.row_offset
    IN  IF ~file
        THEN [open |-> FALSE, line |-> 0, lines |-> 0, precenteges |-> 0,
              message |-> "none"]
        ELSE [open |-> TRUE,
              line |-> current_line_idx + 1,
              lines |-> Len(e.rows),
              precenteges |-> IF Len(e.rows) = 0 THEN 0
                              ELSE ((current_line_idx + 1) * 100) \div Len(e.rows),
              message |-> IF shown THEN message ELSE "none"]

\* The frame of one draw: the screen rows row_offset .. row_offset +
\* term_rows, the status bar, and where the cursor is put.
Frame(e, shown) ==
    [text |-> [i \in 0..term_rows |-> ScreenRow(e, e.row_offset + i)],
     bar |-> StatusFields(e, shown),
     cursor |-> [x |-> rx(e), y |-> e.cur_pos.y]]

----------------------------------------------------------------------------
(* The file *)

RECURSIVE Lines(_, _)
\* BufRead::lines over the bytes left to read, `cur` being the line read so
\* far: lines end at LF, a CR before that LF is dropped with it, and a last
\* line without LF is a line too.
Lines(bytes, cur) ==
    IF bytes = <<>> THEN (IF cur = <<>> THEN <<>> ELSE <<cur>>)
    ELSE IF Head(bytes) = LF
    THEN <<IF cur # <<>> /\ cur[Len(cur)] = CR
           THEN SubSeq(cur, 1, Len(cur) - 1) ELSE cur>> \o Lines(Tail(bytes), <<>>)
    ELSE Lines(Tail(bytes), Append(cur, Head(bytes)))

RECURSIVE Encode(_)
\* What save writes: format!("{}\n", row) for every row, in order.
Encode(rs) ==
    IF rs = <<>> THEN <<>> ELSE Head(rs) \o <<LF>> \o Encode(Tail(rs))

\* The files the editor is started on: an empty file, "abc\nde\n", and the
\* three lines "a\r\r\n\nb\n": the first line holds a carriage return before
\* its CR LF line ending, the second is empty.
ExampleFiles ==
    { <<>>, <<97, 98, 99, LF, 100, 101, LF>>, <<97, CR, CR, LF, LF, 98, LF>> }

\* What get_window_size reports: a terminal of 3 rows and 4 columns, which
\* shows 2 rows of 3 columns, so that the example files scroll down and a
\* line one character longer than "abc" scrolls right.
WindowSizes ==
    { [ws_row |-> 3, ws_col |-> 4] }

\* What the terminal sends for a key press: Ctrl-Q, Ctrl-X, Ctrl-S,
\* Backspace, Enter, 'x', Ctrl-A, ESC alone, the arrows, Home, End, PageUp,
\* PageDown, ESC [ Z, F5 (ESC [ 1 5 ~) and F1 (ESC O P).
Keys ==
    { <<17>>, <<24>>, <<19>>, <<DEL>>, <<CR>>, <<120>>, <<1>>, <<ESC>>,
      <<ESC, 91, 65>>, <<ESC, 91, 66>>, <<ESC, 91, 67>>, <<ESC, 91, 68>>,
      <<ESC, 91, 72>>, <<ESC, 91, 70>>, <<ESC, 91, 53, 126>>,
      <<ESC, 91, 54, 126>>, <<ESC, 91, 90>>, <<ESC, 91, 49, 53, 126>>,
      <<ESC, 79, 80>> }

----------------------------------------------------------------------------
(* The process *)

Init ==
    /\ pc = "start"
    /\ exit_kind = "none"
    /\ tty = "cooked"
    /\ raw_mode = "none"
    /\ restores = 0
    /\ term_rows = 0
    /\ term_cols = 0
    /\ cur_pos = [x |-> 0, y |-> 0]
    /\ row_offset = 0
    /\ col_offset = 0
    /\ file = FALSE
    /\ rows = <<>>
    /\ message = "none"
    /\ dirty_flag = FALSE
    /\ disk \in ExampleFiles
    /\ stdin = <<>>
    /\ edits = 0
    /\ saved = <<>>
    /\ last = "Init"

\* A process that ends without dropping its RawMode guard (std::process::exit,
\* or a panic that aborts instead of unwinding): nothing is restored.
ExitWithoutDrop(kind) ==
    /\ pc' = "exited"
    /\ exit_kind' = kind
    /\ rows' = <<>>
    /\ cur_pos' = [x |-> 0, y |-> 0]
    /\ row_offset' = 0
    /\ col_offset' = 0
    /\ dirty_flag' = FALSE
    /\ saved' = <<>>
    /\ UNCHANGED <<raw_mode, restores, tty>>

\* The process ends: main returns or unwinds and drops the Editor.  Its
\* buffer and cursor are gone (the model resets them), and its RawMode guard
\* is dropped: Drop for RawMode restores the saved configuration.
ExitWith(kind) ==
    /\ pc' = "exited"
    /\ exit_kind' = kind
    /\ rows' = <<>>
    /\ cur_pos' = [x |-> 0, y |-> 0]
    /\ row_offset' = 0
    /\ col_offset' = 0
    /\ dirty_flag' = FALSE
    /\ saved' = <<>>
    /\ IF raw_mode = "held"
       THEN /\ raw_mode' = "dropped"
            /\ restores' = restores + 1
            /\ tty' = "cooked"
       ELSE UNCHANGED <<raw_mode, restores, tty>>

\* Editor::new with RawMode::enable_raw_mode and get_window_size.  Either
\* Termios::from_fd fails (unwrap panics before anything is saved), or the
\* configuration is saved and raw mode set, and then the window size query
\* fails (expect panics, unwinding drops `mode`) or gives the size.
EditorNew ==
    /\ pc = "start"
    /\ last' = "New"
    /\ \/ /\ pc' = "exited"
          /\ exit_kind' = "panic"
          /\ UNCHANGED <<tty, raw_mode, restores, term_rows, term_cols, message>>
       \/ /\ pc' = "exited"
          /\ exit_kind' = "panic"
          /\ raw_mode' = "dropped"
          /\ restores' = restores + 1
          /\ tty' = "cooked"
          /\ UNCHANGED <<term_rows, term_cols, message>>
       \/ /\ pc' = "created"
          /\ tty' = "raw"
          /\ raw_mode' = "held"
          /\ \E ws \in WindowSizes :
                 /\ term_rows' = ws.ws_row - 2
                 /\ term_cols' = ws.ws_col - 1
          /\ message' = "HELP: Ctrl-S = save | Ctrl-Q = quit"
          /\ UNCHANGED <<exit_kind, restores>>
    /\ UNCHANGED <<cur_pos, row_offset, col_offset, file, rows, dirty_flag,
                   disk, stdin, edits, saved>>

Alive == UNCHANGED <<exit_kind, tty, raw_mode, restores>>

\* main up to its loop: Editor::open on the argument, if any, then draw.
\* Without an argument, or with one that is no regular file, nothing is
\* opened; a file that cannot be opened or read panics in open (unwrap).
MainOpen ==
    /\ pc = "created"
    /\ last' = "Open"
    /\ \/ /\ UNCHANGED <<file, rows, cur_pos, row_offset, col_offset, dirty_flag,
                         saved>>
          /\ pc' = "running"
          /\ Alive
       \/ /\ file' = TRUE
          /\ rows' = Lines(disk, <<>>)
          /\ saved' = Lines(disk, <<>>)
          /\ UNCHANGED <<cur_pos, row_offset, col_offset, dirty_flag>>
          /\ pc' = "running"
          /\ Alive
       \/ /\ UNCHANGED file
          /\ ExitWith("panic")
    /\ UNCHANGED <<term_rows, term_cols, message, disk, stdin, edits>>

\* The editor fields take the values of e once the e.draw() that ends the
\* loop's iteration has run; a panic, in the handler or in draw, ends the
\* process instead.
Commit(e, rest, label) ==
    LET f == draw(e)
    IN  /\ last' = label
        /\ stdin' = rest
        /\ IF f.panic
           THEN ExitWith("panic")
           ELSE /\ f.cur_pos.y <= MaxCoord
                /\ f.row_offset <= MaxCoord
                /\ f.col_offset <= MaxCoord
                /\ UNCHANGED <<pc, saved>>
                /\ Alive
                /\ rows' = f.rows
                /\ cur_pos' = f.cur_pos
                /\ row_offset' = f.row_offset
                /\ col_offset' = f.col_offset
                /\ dirty_flag' = f.dirty_flag

\* The bytes main reads next: those of the last key press that are still
\* unread, or else those of a new key press.
Pending == IF stdin = <<>> THEN Keys ELSE {stdin}

\* main is in its loop, and the byte it reads decodes to `tag`.
Reads(bytes, tag) ==
    /\ pc = "running"
    /\ ActionFrom(Head(bytes)).tag = tag
    /\ UNCHANGED <<term_rows, term_cols, file>>

\* Action::Quit: break, main returns Ok(()) and drops the Editor.
Quit ==
    \E bytes \in Pending :
        /\ Reads(bytes, "Quit")
        /\ ExitWith("quit")
        /\ last' = "Quit"
        /\ stdin' = Tail(bytes)
        /\ UNCHANGED <<message, disk, edits>>

\* A Refresh that also sends the cursor to the start of its line.
RefreshGoesHome ==
    \E bytes \in Pending :
        /\ Reads(bytes, "Refresh")
        /\ Commit(MoveHome(Ed), Tail(bytes), "Refresh")
        /\ UNCHANGED <<message, disk, edits>>

\* Action::Refresh: refresh_screen writes three escape sequences.
Refresh ==
    \E bytes \in Pending :
        /\ Reads(bytes, "Refresh")
        /\ Commit(Ed, Tail(bytes), "Refresh")
        /\ UNCHANGED <<message, disk, edits>>

\* Action::Escape when handle_escape_seq returns a navigation key.
Navigate ==
    \E bytes \in Pending :
        LET ak == NavOfBuffer(EscBuffer(Tail(bytes)))
        IN  /\ Reads(bytes, "Escape")
            /\ ak # "Err"
            /\ \E checked \in (IF ak = "Down" THEN BOOLEAN ELSE {TRUE}) :
                   Commit(move_cursor(Ed, ak, checked), EscRest(Tail(bytes)), ak)
            /\ UNCHANGED <<message, disk, edits>>

\* Action::Escape when handle_escape_seq returns Err: nothing is done with
\* the bytes it read.
EscapeErr ==
    \E bytes \in Pending :
        /\ Reads(bytes, "Escape")
        /\ NavOfBuffer(EscBuffer(Tail(bytes))) = "Err"
        /\ Commit(Ed, EscRest(Tail(bytes)), "EscErr")
        /\ UNCHANGED <<message, disk, edits>>

\* Action::Save.  Editor::save with a file: seek and set_len return their
\* error; a failed write_all panics (unwrap) after the rows before it were
\* written; a failed flush returns its error; otherwise every row is on disk
\* and the dirty flag is cleared.  Without a file save does nothing and
\* returns Ok(()).
Save ==
    \E bytes \in Pending :
        /\ Reads(bytes, "Save")
        /\ last' = "Save"
        /\ stdin' = Tail(bytes)
        /\ UNCHANGED edits
        /\ IF ~dirty_flag
           THEN /\ message' = "No Changes Made!"
                /\ dirty_flag' = FALSE
                /\ UNCHANGED <<pc, disk, rows, cur_pos, row_offset, col_offset,
                               saved>>
                /\ Alive
           ELSE IF ~file
           THEN /\ message' = "File saved successfully!"
                /\ UNCHANGED <<pc, disk, dirty_flag, rows, cur_pos, row_offset,
                               col_offset, saved>>
                /\ Alive
           ELSE \/ /\ message' = "Error saving file!"
                   /\ UNCHANGED <<pc, disk, dirty_flag, rows, cur_pos,
                                  row_offset, col_offset, saved>>
                   /\ Alive
                \/ /\ \E k \in 0..(Len(rows) - 1) :
                          disk' = Encode(SubSeq(rows, 1, k))
                   /\ ExitWith("panic")
                   /\ UNCHANGED message
                \/ /\ message' = "Error saving file!"
                   /\ disk' = Encode(rows)
                   /\ UNCHANGED <<pc, dirty_flag, rows, cur_pos, row_offset,
                                  col_offset, saved>>
                   /\ Alive
                \/ /\ message' = "File saved successfully!"
                   /\ disk' = Encode(rows)
                   /\ dirty_flag' = FALSE
                   /\ saved' = rows
                   /\ UNCHANGED <<pc, rows, cur_pos, row_offset, col_offset>>
                   /\ Alive

\* An editing key is handled only while the run has edits left.
CountEdit ==
    /\ edits < MaxEdits
    /\ edits' = edits + 1

\* Action::Delete
Delete ==
    \E bytes \in Pending :
        /\ Reads(bytes, "Delete")
        /\ CountEdit
        /\ Commit(remove_char(Ed), Tail(bytes), "Delete")
        /\ UNCHANGED <<message, disk>>

\* Action::Enter
Enter ==
    \E bytes \in Pending :
        /\ Reads(bytes, "Enter")
        /\ CountEdit
        /\ Commit(insert_newline(Ed), Tail(bytes), "Enter")
        /\ UNCHANGED <<message, disk>>

\* Action::Input(c) with a c that is no ASCII control character.
Input ==
    \E bytes \in Pending :
        /\ Reads(bytes, "Input")
        /\ ~is_ascii_control(Head(bytes))
        /\ CountEdit
        /\ Commit(insert_char(Ed, Head(bytes)), Tail(bytes), "Input")
        /\ UNCHANGED <<message, disk>>

\* Action::Input(c) with an ASCII control character: nothing but the draw.
InputIgnored ==
    \E bytes \in Pending :
        /\ Reads(bytes, "Input")
        /\ is_ascii_control(Head(bytes))
        /\ Commit(Ed, Tail(bytes), "Ignored")
        /\ UNCHANGED <<message, disk, edits>>

\* io::stdin().read(&mut buff)? returns the error out of main.
ReadError ==
    /\ pc = "running"
    /\ ExitWith("io_error")
    /\ last' = "ReadError"
    /\ UNCHANGED <<term_rows, term_cols, file, message, disk, stdin, edits>>

\* Every step but Save.  Save changes none of rows, cur_pos, row_offset and
\* col_offset, so the buffers and cursors reached are those of the whole
\* program.
Next ==
    \/ EditorNew
    \/ MainOpen
    \/ Quit
    \/ Refresh
    \/ Navigate
    \/ EscapeErr
    \/ Delete
    \/ Enter
    \/ Input
    \/ InputIgnored
    \/ ReadError

Spec == Init /\ [][Next]_vars

\* The whole program.
NextSave == Next \/ Save

SpecSave == Init /\ [][NextSave]_vars

\* A file whose line starts with a tab and is one character longer than the
\* screen is wide: "\tabc\n".
TabFiles ==
    { <<TAB, 97, 98, 99, LF>> }

\* The program started on such a file.
InitTab ==
    /\ pc = "start"
    /\ exit_kind = "none"
    /\ tty = "cooked"
    /\ raw_mode = "none"
    /\ restores = 0
    /\ term_rows = 0
    /\ term_cols = 0
    /\ cur_pos = [x |-> 0, y |-> 0]
    /\ row_offset = 0
    /\ col_offset = 0
    /\ file = FALSE
    /\ rows = <<>>
    /\ message = "none"
    /\ dirty_flag = FALSE
    /\ disk \in TabFiles
    /\ stdin = <<>>
    /\ edits = 0
    /\ saved = <<>>
    /\ last = "Init"

SpecTab == InitTab /\ [][Next]_vars

----------------------------------------------------------------------------
(* The claims *)

\* The absolute buffer coordinate of the cursor.
AbsX(e) == e.cur_pos.x + e.col_offset

AbsY(e) == e.cur_pos.y + e.row_offset

\* The length of the line the cursor addresses; the row one past the last
\* line holds no characters.
LineLen(e) == IF HasLine(e) THEN Len(current_line(e)) ELSE 0

\* The absolute coordinate is within [0, line length] x [0, line count].
InRange(e) == AbsX(e) <= LineLen(e) /\ AbsY(e) <= Len(e.rows)

\* The printable characters the model's keys can insert: 'x', and the '~'
\* that ends F5's sequence.
Printable == {120, 126}

\* C1: while only navigation keys have been handled (no editing key yet),
\* the absolute cursor coordinate stays within [0, length of the addressed
\* line] x [0, number of lines].
C1_NavigationStaysInRange ==
    (pc = "running" /\ edits = 0) => InRange(Ed)

\* C2: no key handled by the main loop ends the process with a panic.
C2_NoKeyPanics ==
    ~(pc = "exited" /\ exit_kind = "panic" /\ last \notin {"New", "Open"})

\* C3: when the process has ended, the configuration enable_raw_mode saved
\* (if it got to save one) has been restored, exactly once, and it is never
\* restored while the process runs.
C3_RestoredExactlyOnce ==
    /\ pc = "exited" =>
           \/ raw_mode = "dropped" /\ restores = 1 /\ tty = "cooked"
           \/ raw_mode = "none" /\ restores = 0 /\ tty = "cooked"
    /\ pc # "exited" => restores = 0

\* C3's case: the window size query failed after raw mode was entered, and
\* the terminal was restored.
C3_Witness ==
    pc = "exited" /\ last = "New" /\ raw_mode = "dropped" /\ restores = 1

\* C4: inserting a printable character and then pressing backspace (each
\* followed by its draw), when neither panics, leaves the lines of the
\* buffer as they were.
C4_InsertThenBackspaceRestores ==
    pc = "running" =>
        \A c \in Printable :
            LET a == draw(insert_char(Ed, c))
                b == draw(remove_char(a))
            IN  (~a.panic /\ ~b.panic) => b.rows = rows

\* The viewport invariant: row_offset + y is a buffer row or the row one
\* past the end, and col_offset is at most the length of the current line.
ViewportInv(e) == AbsY(e) <= Len(e.rows) /\ e.col_offset <= LineLen(e)

\* What the three edit actions make of the editor e.
EditResults(e) ==
    {insert_char(e, c) : c \in Printable} \cup {insert_newline(e), remove_char(e)}

\* C5: an edit action started in a state that satisfies the viewport
\* invariant ends, without a panic, in a state that satisfies it.
C5_EditsKeepViewportInv ==
    (pc = "running" /\ ViewportInv(Ed)) =>
        \A r \in EditResults(Ed) : ~r.panic /\ ViewportInv(r)

\* C6: no byte of an escape sequence is inserted as text.  No key of the
\* model sends '~' on its own and no example file holds one: a '~' in the
\* buffer is the last byte of F5's ESC [ 1 5 ~.
C6_NoSequenceByteInserted ==
    \A i \in 1..Len(rows) : \A j \in 1..Len(rows[i]) : rows[i][j] # 126

\* The cursor and the offsets of e are those of f.
SameCursor(e, f) ==
    /\ e.cur_pos = f.cur_pos
    /\ e.row_offset = f.row_offset
    /\ e.col_offset = f.col_offset

\* C7: Right with the cursor at the end of its line goes to column 0 of the
\* next line (scrolling instead of moving down on the bottom visible row) if
\* there is a next line, and changes neither cursor nor offsets at the end of
\* the last line.
C7_RightAtEndOfLine ==
    (pc = "running" /\ HasLine(Ed) /\ AbsX(Ed) = LineLen(Ed)) =>
        LET r == move_cursor(Ed, "Right", TRUE)
        IN  /\ ~r.panic
            /\ IF AbsY(Ed) + 1 < Len(rows)
               THEN /\ r.cur_pos.x = 0
                    /\ r.col_offset = 0
                    /\ IF cur_pos.y = term_rows
                       THEN r.cur_pos.y = cur_pos.y /\ r.row_offset = row_offset + 1
                       ELSE r.cur_pos.y = cur_pos.y + 1 /\ r.row_offset = row_offset
               ELSE SameCursor(r, Ed)

\* C8: insert_newline at an absolute position (x, y) of the buffer (line y
\* exists and x is at most its length) replaces line y by its first x
\* characters and, on the next line, the rest; the lines before keep their
\* place, those after move down by one, and the dirty flag is set.
C8_NewlineSplitsLine ==
    (pc = "running" /\ HasLine(Ed) /\ InRange(Ed)) =>
        LET x == AbsX(Ed)
            y == AbsY(Ed) + 1
            r == insert_newline(Ed)
        IN  /\ ~r.panic
            /\ r.dirty_flag
            /\ Len(r.rows) = Len(rows) + 1
            /\ Len(r.rows[y]) = x
            /\ \A j \in 1..x : r.rows[y][j] = rows[y][j]
            /\ Len(r.rows[y + 1]) = Len(rows[y]) - x
            /\ \A j \in 1..(Len(rows[y]) - x) : r.rows[y + 1][j] = rows[y][x + j]
            /\ \A i \in 1..(y - 1) : r.rows[i] = rows[i]
            /\ \A i \in (y + 1)..Len(rows) : r.rows[i + 1] = rows[i]

\* C8's case: Enter at (1,1) of ["abc", "de"] gave ["abc", "d", "e"].
C8_Witness ==
    /\ pc = "running"
    /\ last = "Enter"
    /\ rows = <<<<97, 98, 99>>, <<100>>, <<101>>>>
    /\ dirty_flag

\* C9: insert_char(c) at an absolute position (x, y) of the buffer puts c at
\* column x of line y, moving the rest of the line right, and on the row one
\* past the last line appends the line "c"; every other line is unchanged,
\* the dirty flag is set, and the cursor ends at (x + 1, y).
C9_InsertCharAtCursor ==
    (pc = "running" /\ InRange(Ed)) =>
        \A c \in Printable :
            LET x == AbsX(Ed)
                y == AbsY(Ed) + 1
                r == insert_char(Ed, c)
            IN  /\ ~r.panic
                /\ r.dirty_flag
                /\ AbsX(r) = x + 1
                /\ AbsY(r) = AbsY(Ed)
                /\ r.rows[y][x + 1] = c
                /\ \A i \in 1..Len(rows) : i # y => r.rows[i] = rows[i]
                /\ IF HasLine(Ed)
                   THEN /\ Len(r.rows) = Len(rows)
                        /\ Len(r.rows[y]) = Len(rows[y]) + 1
                        /\ \A j \in 1..x : r.rows[y][j] = rows[y][j]
                        /\ \A j \in (x + 1)..Len(rows[y]) :
                               r.rows[y][j + 1] = rows[y][j]
                   ELSE /\ Len(r.rows) = Len(rows) + 1
                        /\ r.rows[y] = <<c>>

\* C9's case: 'x' typed into the empty buffer gave ["x"], cursor (1,0).
C9_Witness ==
    /\ pc = "running"
    /\ last = "Input"
    /\ rows = <<<<120>>>>
    /\ cur_pos = [x |-> 1, y |-> 0]
    /\ row_offset = 0 /\ col_offset = 0
    /\ dirty_flag

\* C10: Backspace with the absolute cursor at column 0 of line 0 changes
\* neither the lines of the buffer nor the cursor nor the offsets.
C10_BackspaceAtOriginIsNoOp ==
    (pc = "running" /\ AbsX(Ed) = 0 /\ AbsY(Ed) = 0) =>
        LET r == remove_char(Ed)
        IN  ~r.panic /\ r.rows = rows /\ SameCursor(r, Ed)

\* C11: Backspace with the absolute cursor at column 0 of an existing line
\* y > 0 replaces line y - 1 by old line y - 1 followed by old line y and
\* removes line y: the line count decreases by one, the lines before y - 1
\* keep their place and those after y move up by one.
C11_BackspaceJoinsLines ==
    (pc = "running" /\ HasLine(Ed) /\ AbsX(Ed) = 0 /\ AbsY(Ed) > 0) =>
        LET y == AbsY(Ed)
            r == remove_char(Ed)
        IN  /\ ~r.panic
            /\ Len(r.rows) = Len(rows) - 1
            /\ r.rows[y] = rows[y] \o rows[y + 1]
            /\ \A i \in 1..(y - 1) : r.rows[i] = rows[i]
            /\ \A i \in (y + 2)..Len(rows) : r.rows[i - 1] = rows[i]

\* C11's case: Backspace at (0,1) of ["abc", "de"] gave ["abcde"].
C11_Witness ==
    /\ pc = "running"
    /\ last = "Delete"
    /\ rows = <<<<97, 98, 99, 100, 101>>>>
    /\ dirty_flag

\* C12: whenever the dirty flag is false, the lines of the buffer are those
\* that open loaded or the last successful save wrote (an empty buffer when
\* nothing was loaded).
C12_CleanBufferIsSaved ==
    (pc = "running" /\ ~dirty_flag) => rows = saved

\* C12's case: an edit made the buffer dirty and a successful save cleared
\* the flag.
C12_Witness ==
    /\ pc = "running"
    /\ last = "Save"
    /\ edits = 1
    /\ ~dirty_flag
    /\ message = "File saved successfully!"
    /\ rows = <<<<97, 98, 99>>, <<100>>, <<101>>>>

\* C13: a Save requested on a dirty buffer either succeeds (there is a file,
\* every row is written to it, the flag is cleared and success is reported)
\* or ends in the error outcome: the message reports the failure, the dirty
\* flag stays set, the buffer is unchanged and the editor keeps running.
C13_FailedSaveIsReported ==
    [][(pc = "running" /\ dirty_flag /\ last' = "Save") =>
           \/ /\ file
              /\ disk' = Encode(rows)
              /\ message' = "File saved successfully!"
              /\ ~dirty_flag'
              /\ rows' = rows
              /\ pc' = "running"
           \/ /\ message' = "Error saving file!"
              /\ dirty_flag'
              /\ rows' = rows
              /\ pc' = "running"]_vars

\* C14: after a successful save, open on the same path (BufRead::lines over
\* the bytes save wrote) yields the lines that were in the buffer.
C14_SaveThenLoadRoundTrip ==
    (pc = "running" /\ last = "Save" /\ file
        /\ message = "File saved successfully!") =>
        Lines(disk, <<>>) = rows

\* C15: in a buffer of more lines than the screen shows (term_rows + 1
\* rows), and with no editing key handled yet, PageDown raises row_offset by
\* at most term_rows and leaves it at most line count - term_rows - 1.
C15_PageDownKeepsRowOffsetInBuffer ==
    (pc = "running" /\ edits = 0 /\ Len(rows) > term_rows + 1) =>
        LET r == move_cursor(Ed, "PageDown", TRUE)
        IN  /\ ~r.panic
            /\ r.row_offset >= row_offset
            /\ r.row_offset - row_offset <= term_rows
            /\ r.row_offset + term_rows + 1 <= Len(rows)

C17_LeftAtColumnZero ==
    (pc = "running" /\ HasLine(Ed) /\ AbsX(Ed) = 0 /\ AbsY(Ed) > 0) =>
        LET r == move_cursor(Ed, "Left", TRUE)
        IN  /\ ~r.panic
            /\ IF cur_pos.y = 0
               THEN r.cur_pos.y = 0 /\ r.row_offset = row_offset - 1
               ELSE r.cur_pos.y = cur_pos.y - 1 /\ r.row_offset = row_offset
            /\ AbsX(r) = Len(rows[AbsY(Ed)])

\* C18: when Up or Down, pressed with the cursor at a position of the
\* buffer, moves it to another existing line, the absolute column afterwards
\* is the smaller of the absolute column before and the length of the target
\* line.
C18_VerticalMotionClampsColumn ==
    (pc = "running" /\ HasLine(Ed) /\ InRange(Ed)) =>
        \A ak \in {"Up", "Down"} :
            LET r == move_cursor(Ed, ak, TRUE)
            IN  (~r.panic /\ AbsY(r) # AbsY(Ed) /\ HasLine(r)) =>
                    AbsX(r) = Min(AbsX(Ed), Len(current_line(r)))

\* C19: End pressed with the cursor at a position of the buffer, on an
\* existing line, leaves the absolute column equal to the length of that
\* line, cur_pos.x at most term_cols, and the row unchanged.
C19_EndGoesToEndOfLine ==
    (pc = "running" /\ HasLine(Ed) /\ InRange(Ed)) =>
        LET r == move_cursor(Ed, "End", TRUE)
        IN  /\ ~r.panic
            /\ AbsX(r) = Len(current_line(Ed))
            /\ r.cur_pos.x <= term_cols
            /\ r.cur_pos.y = cur_pos.y
            /\ r.row_offset = row_offset

\* C20: an edit at a position (x, y) of the buffer leaves the cursor at the
\* edit point: at (x + 1, y) after insert_char; at (x - 1, y) after a
\* backspace that removed the character before column x > 0; on line y - 1,
\* at the former length of that line, after a backspace at column 0 that
\* joined line y into it.
C20_CursorFollowsEdit ==
    (pc = "running" /\ InRange(Ed)) =>
        LET x == AbsX(Ed)
            y == AbsY(Ed)
            d == remove_char(Ed)
        IN  /\ \A c \in Printable :
                   LET r == insert_char(Ed, c)
                   IN  ~r.panic /\ AbsX(r) = x + 1 /\ AbsY(r) = y
            /\ (HasLine(Ed) /\ x > 0) =>
                   ~d.panic /\ AbsX(d) = x - 1 /\ AbsY(d) = y
            /\ (HasLine(Ed) /\ x = 0 /\ y > 0) =>
                   ~d.panic /\ AbsY(d) = y - 1 /\ AbsX(d) = Len(rows[y])

\* C21: while main runs, the cursor is inside the visible viewport:
\* cur_pos.y is at most term_rows and cur_pos.x at most term_cols.
C21_CursorStaysInViewport ==
    pc = "running" => cur_pos.y <= term_rows /\ cur_pos.x <= term_cols

\* The part of the current line that draw shows to the left of the cursor:
\* the characters at buffer columns col_offset up to col_offset + cur_pos.x.
ShownLeftOfCursor(e) ==
    SubSeq(current_line(e), e.col_offset + 1, e.col_offset + e.cur_pos.x)

\* C22: with the cursor at a position of an existing line, the screen column
\* rx at which the cursor is placed is the rendered width (a tab counting
\* tab_size, any other character one) of the part of the line that draw shows
\* to the left of the cursor.
C22_RxIsWidthOfShownPrefix ==
    (pc = "running" /\ HasLine(Ed) /\ InRange(Ed)) =>
        rx(Ed) = Len(render_row(ShownLeftOfCursor(Ed)))

============================================================================
